---- MODULE Spec2Model ----
(***************************************************************************)
(* StockFlow inventory backend: the low-stock alert endpoint               *)
(* (src/low_stock_alerts.py) and the product-creation endpoint             *)
(* (src/fixed_create_product.py) over the schema of src/models.py.         *)
(***************************************************************************)
EXTENDS Integers, Sequences, FiniteSets, TLC

(***************************************************************************)
(* Optional values: None is the empty tuple, Some(x) the one-tuple.        *)
(***************************************************************************)
None == <<>>
Some(x) == <<x>>
IsNone(o) == o = <<>>
IsSome(o) == o /= <<>>
Val(o) == o[1]

(***************************************************************************)
(* Bounds of the model.                                                    *)
(***************************************************************************)
MaxSales == 3

(***************************************************************************)
(* Python float arithmetic (IEEE-754 binary64, round to nearest even).     *)
(* A positive float is [m, e] with value m * 2^e, m a 53-bit significand   *)
(* held in two limbs <<hi, lo>> of base 2^27.                              *)
(***************************************************************************)
Base == 2^27
MantissaBits == 52

BigOf(n) == <<n \div Base, n % Base>>
BigIsZero(x) == x[1] = 0 /\ x[2] = 0
BigOdd(x) == x[2] % 2 = 1
BigGeq(x, y) == x[1] > y[1] \/ (x[1] = y[1] /\ x[2] >= y[2])
BigDouble(x) == <<2 * x[1] + ((2 * x[2]) \div Base), (2 * x[2]) % Base>>
BigHalf(x) == <<x[1] \div 2, (x[2] + (x[1] % 2) * Base) \div 2>>
BigInc(x) == IF x[2] + 1 = Base THEN <<x[1] + 1, 0>> ELSE <<x[1], x[2] + 1>>
BigSub(x, y) ==
    IF x[2] >= y[2] THEN <<x[1] - y[1], x[2] - y[2]>>
    ELSE <<x[1] - y[1] - 1, x[2] + Base - y[2]>>

\* Scale a and b by powers of two until b <= a < 2b; st = <<a, b, sh>>, sh the
\* exponent of two by which the scaled quotient must be multiplied.
RECURSIVE Normalize(_)
Normalize(st) ==
    IF ~BigGeq(st[1], st[2]) THEN Normalize(<<BigDouble(st[1]), st[2], st[3] - 1>>)
    ELSE IF BigGeq(st[1], BigDouble(st[2]))
         THEN Normalize(<<st[1], BigDouble(st[2]), st[3] + 1>>)
         ELSE st

\* One step of binary long division by b: st = <<remainder, quotient, bits left>>.
DivStep(st, b) ==
    LET r2 == BigDouble(st[1])
    IN IF BigGeq(r2, b) THEN <<BigSub(r2, b), BigInc(BigDouble(st[2])), st[3] - 1>>
       ELSE <<r2, BigDouble(st[2]), st[3] - 1>>

\* Long division until no quotient bit is left to produce.
RECURSIVE DivBits(_, _)
DivBits(st, b) == IF st[3] = 0 THEN st ELSE DivBits(DivStep(st, b), b)

\* a / b for positive a, b, correctly rounded to 53 bits.
BigFloatDiv(a, b) ==
    LET nz == Normalize(<<a, b, 0>>)
        mr == DivBits(<<BigSub(nz[1], nz[2]), BigOf(1), MantissaBits>>, nz[2])
        r2 == BigDouble(mr[1])
        guard == BigGeq(r2, nz[2])
        rest == IF guard THEN BigSub(r2, nz[2]) ELSE r2
        up == guard /\ (~BigIsZero(rest) \/ BigOdd(mr[2]))
    IN [m |-> IF up THEN BigInc(mr[2]) ELSE mr[2], e |-> nz[3] - MantissaBits]

\* Python: int / int (true division) for positive operands.
PyTrueDiv(a, b) == BigFloatDiv(BigOf(a), BigOf(b))

\* Python: int / float for a positive int and a positive float.
PyDivByFloat(a, f) ==
    LET q == BigFloatDiv(BigOf(a), f.m)
    IN [m |-> q.m, e |-> q.e - f.e]

\* st = <<x, n>>: x shifted right by n bits.
RECURSIVE BigShiftRight(_)
BigShiftRight(st) ==
    IF st[2] = 0 \/ BigIsZero(st[1]) THEN st[1]
    ELSE BigShiftRight(<<BigHalf(st[1]), st[2] - 1>>)

RECURSIVE Pow2(_)
Pow2(n) == IF n = 0 THEN 1 ELSE 2 * Pow2(n - 1)

\* Python: int(float) truncates; the floats here are positive.
PyIntOfFloat(f) ==
    IF f.e <= 0 THEN BigShiftRight(<<f.m, -f.e>>)[2]
    ELSE f.m[2] * Pow2(f.e)

(***************************************************************************)
(* Strings are sequences of characters, so that Python's str methods and   *)
(* conversions can be computed.                                            *)
(***************************************************************************)
Digits == <<"0", "1", "2", "3", "4", "5", "6", "7", "8", "9">>
IsDigit(c) == \E i \in 1..Len(Digits) : Digits[i] = c
DigitVal(c) == (CHOOSE i \in 1..Len(Digits) : Digits[i] = c) - 1
IsSpace(c) == c = " "

\* Python: str.strip()
RECURSIVE LStrip(_)
LStrip(s) == IF s /= <<>> /\ IsSpace(Head(s)) THEN LStrip(Tail(s)) ELSE s
RECURSIVE RStrip(_)
RStrip(s) ==
    IF s /= <<>> /\ IsSpace(s[Len(s)]) THEN RStrip(SubSeq(s, 1, Len(s) - 1)) ELSE s
PyStrip(s) == RStrip(LStrip(s))

RECURSIVE DigitsValue(_, _)
DigitsValue(s, acc) ==
    IF s = <<>> THEN acc ELSE DigitsValue(Tail(s), 10 * acc + DigitVal(Head(s)))

AllDigits(s) == s /= <<>> /\ \A i \in 1..Len(s) : IsDigit(s[i])

\* Python: int(str). None stands for the ValueError.
PyIntOfStr(s) ==
    LET t == PyStrip(s)
        signed == t /= <<>> /\ Head(t) \in {"-", "+"}
        body == IF signed THEN Tail(t) ELSE t
    IN IF ~AllDigits(body) THEN None
       ELSE IF signed /\ Head(t) = "-" THEN Some(0 - DigitsValue(body, 0))
       ELSE Some(DigitsValue(body, 0))

\* Python: bool(str)
PyBoolOfStr(s) == s /= <<>>

(***************************************************************************)
(* JSON values of a request body: a kind, a number (floats in tenths) and  *)
(* a string.                                                               *)
(***************************************************************************)
Missing == [k |-> "missing", n |-> 0, s |-> <<>>]
JNull == [k |-> "null", n |-> 0, s |-> <<>>]
JInt(n) == [k |-> "int", n |-> n, s |-> <<>>]
JFloat(tenths) == [k |-> "float", n |-> tenths, s |-> <<>>]
JStr(s) == [k |-> "str", n |-> 0, s |-> s]

RECURSIVE NatToStr(_)
NatToStr(n) ==
    IF n < 10 THEN <<Digits[n + 1]>> ELSE NatToStr(n \div 10) \o <<Digits[(n % 10) + 1]>>

IntToStr(n) == IF n < 0 THEN <<"-">> \o NatToStr(0 - n) ELSE NatToStr(n)

\* Integer part of n / 10, rounded toward zero.
TruncTenths(n) == IF n < 0 THEN 0 - ((0 - n) \div 10) ELSE n \div 10

\* Python: str(value)
PyStr(v) ==
    CASE v.k = "str" -> v.s
      [] v.k = "int" -> IntToStr(v.n)
      [] v.k = "float" ->
            IntToStr(TruncTenths(v.n)) \o <<".">>
                \o NatToStr((IF v.n < 0 THEN 0 - v.n ELSE v.n) % 10)
      [] OTHER -> <<"N", "o", "n", "e">>

\* Python: int(value). None stands for the ValueError or TypeError.
PyInt(v) ==
    CASE v.k = "int" -> Some(v.n)
      [] v.k = "float" -> Some(TruncTenths(v.n))
      [] v.k = "str" -> PyIntOfStr(v.s)
      [] OTHER -> None

\* Python: float(str) for decimal literals with at most one fraction digit, in
\* tenths. None stands for the ValueError.
PyFloatOfStr(s) ==
    LET t == PyStrip(s)
        signed == t /= <<>> /\ Head(t) \in {"-", "+"}
        body == IF signed THEN Tail(t) ELSE t
        dots == {i \in 1..Len(body) : body[i] = "."}
        whole == IF dots = {} THEN body
                 ELSE SubSeq(body, 1, (CHOOSE i \in dots : TRUE) - 1)
        frac == IF dots = {} THEN <<>>
                ELSE SubSeq(body, (CHOOSE i \in dots : TRUE) + 1, Len(body))
        ok == /\ Cardinality(dots) <= 1
              /\ Len(frac) <= 1
              /\ whole \o frac /= <<>>
              /\ \A i \in 1..Len(whole) : IsDigit(whole[i])
              /\ \A i \in 1..Len(frac) : IsDigit(frac[i])
        tenths == 10 * DigitsValue(whole, 0) + DigitsValue(frac, 0)
    IN IF ~ok THEN None
       ELSE IF signed /\ Head(t) = "-" THEN Some(0 - tenths) ELSE Some(tenths)

\* Python: float(value), in tenths. None stands for the ValueError or TypeError.
PyFloat(v) ==
    CASE v.k = "int" -> Some(10 * v.n)
      [] v.k = "float" -> Some(v.n)
      [] v.k = "str" -> PyFloatOfStr(v.s)
      [] OTHER -> None

(***************************************************************************)
(* The data store (src/models.py). One record of tables; inventory is a    *)
(* sequence in the order the store returns its rows.                       *)
(***************************************************************************)
VARIABLES db, req, resp, locals, proc

vars == <<db, req, resp, locals, proc>>

Now == 100

\* Faulty variant of ArgsGetInt: an omitted parameter reads as a week.
ArgsGetIntOrWeek(raw, default) ==
    IF IsNone(raw) THEN 7
    ELSE IF IsNone(PyIntOfStr(Val(raw))) THEN default
    ELSE Val(PyIntOfStr(Val(raw)))

\* werkzeug: request.args.get(key, default=..., type=int)
ArgsGetInt(raw, default) ==
    IF IsNone(raw) THEN default
    ELSE IF IsNone(PyIntOfStr(Val(raw))) THEN default
    ELSE Val(PyIntOfStr(Val(raw)))

\* werkzeug: request.args.get(key, default=..., type=bool)
ArgsGetBool(raw, default) ==
    IF IsNone(raw) THEN default ELSE PyBoolOfStr(Val(raw))

RECENT_SALES_DAYS == 30

Lookup(table, id) ==
    IF \E r \in table : r.id = id THEN Some(CHOOSE r \in table : r.id = id) ELSE None

LookupOpt(table, optId) == IF IsNone(optId) THEN None ELSE Lookup(table, Val(optId))

\* The joined row of the query: inner joins to Product and Warehouse, outer
\* joins to ProductType and Supplier.
JoinedRow(d, inv) ==
    LET product == Val(Lookup(d.products, inv.product_id))
    IN [inventory |-> inv,
        product |-> product,
        warehouse |-> Val(Lookup(d.warehouses, inv.warehouse_id)),
        product_type |-> LookupOpt(d.product_types, product.product_type_id),
        supplier |-> LookupOpt(d.suppliers, product.supplier_id)]

\* The column ProductType.default_low_stock_threshold of a joined row (NULL when
\* the outer join found no type).
TypeDefaultColumn(jr) ==
    IF IsNone(jr.product_type) THEN None
    ELSE Val(jr.product_type).default_low_stock_threshold

\* SQL: a < b, which is not true when b is NULL.
SqlLess(a, optB) == IsSome(optB) /\ a < Val(optB)

\* Faulty variant of LowStockCondition: the comparison admits equality.
LowStockConditionInclusive(jr) ==
    \/ /\ IsSome(jr.inventory.low_stock_threshold)
       /\ jr.inventory.quantity <= Val(jr.inventory.low_stock_threshold)
    \/ /\ IsNone(jr.inventory.low_stock_threshold)
       /\ IsSome(TypeDefaultColumn(jr))
       /\ jr.inventory.quantity <= Val(TypeDefaultColumn(jr))
    \/ /\ IsNone(jr.inventory.low_stock_threshold)
       /\ IsNone(TypeDefaultColumn(jr))
       /\ jr.inventory.quantity <= 10

\* The low-stock condition of the query's filter.
LowStockCondition(jr) ==
    \/ /\ IsSome(jr.inventory.low_stock_threshold)
       /\ SqlLess(jr.inventory.quantity, jr.inventory.low_stock_threshold)
    \/ /\ IsNone(jr.inventory.low_stock_threshold)
       /\ IsSome(TypeDefaultColumn(jr))
       /\ SqlLess(jr.inventory.quantity, TypeDefaultColumn(jr))
    \/ /\ IsNone(jr.inventory.low_stock_threshold)
       /\ IsNone(TypeDefaultColumn(jr))
       /\ jr.inventory.quantity < 10

WarehouseIds(d, company_id) == {w.id : w \in {x \in d.warehouses : x.company_id = company_id}}

RECURSIVE JoinAll(_, _)
JoinAll(d, invs) ==
    IF invs = <<>> THEN <<>> ELSE <<JoinedRow(d, Head(invs))>> \o JoinAll(d, Tail(invs))

\* Faulty variant of InWarehouses: the warehouse filter is left out of the query.
InAnyWarehouse(jr, warehouse_ids) == warehouse_ids /= {}

InWarehouses(jr, warehouse_ids) == jr.inventory.warehouse_id \in warehouse_ids

\* query.all(): the low-stock rows at the company's warehouses, in fetch order.
LowStockItems(d, warehouse_ids) ==
    SelectSeq(JoinAll(d, d.inventory),
              LAMBDA jr : InWarehouses(jr, warehouse_ids) /\ LowStockCondition(jr))

RECURSIVE SumQuantity(_)
SumQuantity(S) ==
    IF S = {} THEN 0
    ELSE LET x == CHOOSE y \in S : TRUE IN x.quantity + SumQuantity(S \ {x})

\* The WHERE clause of the sales subquery.
SalesFilter(sale, product_ids, sales_threshold_date) ==
    sale.sale_date >= sales_threshold_date /\ sale.product_id \in product_ids

\* The GROUP BY key of the sales subquery.
SalesGroupKey(sale) == <<sale.product_id, sale.warehouse_id>>

\* sales_subquery: one row per group of the filtered sales.
SalesSubquery(d, product_ids, sales_threshold_date) ==
    LET rows == {x \in d.sales : SalesFilter(x, product_ids, sales_threshold_date)}
        keys == {SalesGroupKey(x) : x \in rows}
        group(k) == {x \in rows : SalesGroupKey(x) = k}
    IN {[product_id |-> k[1],
         warehouse_id |-> k[2],
         total_sold |-> SumQuantity(group(k)),
         days_with_sales |-> Cardinality({x.sale_date : x \in group(k)})] : k \in keys}

\* db.session.query(sales_subquery).filter(...).first()
RecentSales(subquery, product, warehouse) ==
    LET hits == {g \in subquery : g.product_id = product.id /\ g.warehouse_id = warehouse.id}
    IN IF hits = {} THEN None ELSE Some(CHOOSE g \in hits : TRUE)

\* Faulty variant of Threshold: the type default is skipped.
ThresholdWithoutTypeDefault(inventory, product_type) ==
    IF IsSome(inventory.low_stock_threshold) THEN Val(inventory.low_stock_threshold)
    ELSE 10

\* The threshold the loop reports for a row.
Threshold(inventory, product_type) ==
    IF IsSome(inventory.low_stock_threshold) THEN Val(inventory.low_stock_threshold)
    ELSE IF IsSome(product_type) /\ IsSome(Val(product_type).default_low_stock_threshold)
         THEN Val(Val(product_type).default_low_stock_threshold)
         ELSE 10

\* Faulty variant of AverageDailySales: the divisor is the number of days with sales.
AverageOverDaysWithSales(recent_sales, days) ==
    PyTrueDiv(recent_sales.total_sold, recent_sales.days_with_sales)

\* average_daily_sales = total_sold / days
AverageDailySales(recent_sales, days) == PyTrueDiv(recent_sales.total_sold, days)

\* int(inventory.quantity / average_daily_sales); 0 / x is 0.0 in Python.
StockoutDays(quantity, average_daily_sales) ==
    IF quantity = 0 THEN 0
    ELSE PyIntOfFloat(PyDivByFloat(quantity, average_daily_sales))

\* The days_until_stockout of one loop iteration.
DaysUntilStockout(recent_sales, quantity, days) ==
    IF IsNone(recent_sales) THEN None
    ELSE IF Val(recent_sales).days_with_sales > 0
         THEN IF Val(recent_sales).total_sold > 0
              THEN Some(StockoutDays(quantity, AverageDailySales(Val(recent_sales), days)))
              ELSE None
         ELSE None

SupplierInfo(supplier) ==
    IF IsNone(supplier) THEN None ELSE Some(Val(supplier).id)

\* Whether the loop skips the row (the continue statement).
SkipRow(recent_sales, include_no_sales) == IsNone(recent_sales) /\ ~include_no_sales

\* One loop iteration that reaches alerts.append.
BuildAlert(jr, recent_sales, days) ==
    [product_id |-> jr.product.id,
     sku |-> jr.product.sku,
     warehouse_id |-> jr.warehouse.id,
     current_stock |-> jr.inventory.quantity,
     threshold |-> Threshold(jr.inventory, jr.product_type),
     days_until_stockout |-> DaysUntilStockout(recent_sales, jr.inventory.quantity, days),
     supplier |-> SupplierInfo(jr.supplier)]

\* The locals of one loop iteration that reaches alerts.append.
IterationLocals(jr, recent_sales, days) ==
    [product_id |-> jr.product.id,
     warehouse_id |-> jr.warehouse.id,
     recent_sales |-> recent_sales,
     average_daily_sales |->
        IF IsSome(recent_sales) /\ Val(recent_sales).days_with_sales > 0
        THEN Some(AverageDailySales(Val(recent_sales), days))
        ELSE None]

\* The for loop over low_stock_items: <<alerts, locals>> in loop order.
RECURSIVE AlertLoop(_, _, _, _)
AlertLoop(items, subquery, days, include_no_sales) ==
    IF items = <<>> THEN <<<<>>, <<>>>>
    ELSE LET jr == Head(items)
             recent_sales == RecentSales(subquery, jr.product, jr.warehouse)
             rest == AlertLoop(Tail(items), subquery, days, include_no_sales)
         IN IF SkipRow(recent_sales, include_no_sales) THEN rest
            ELSE <<<<BuildAlert(jr, recent_sales, days)>> \o rest[1],
                   <<IterationLocals(jr, recent_sales, days)>> \o rest[2]>>

\* The sort key: (days_until_stockout is None, days_until_stockout or inf),
\* compared as Python compares tuples.
KeyLess(a, b) ==
    \/ IsSome(a.days_until_stockout) /\ IsNone(b.days_until_stockout)
    \/ /\ IsSome(a.days_until_stockout) /\ IsSome(b.days_until_stockout)
       /\ Val(a.days_until_stockout) < Val(b.days_until_stockout)

\* Faulty variant of InsertSorted: an element goes before the elements it ties with.
RECURSIVE InsertBeforeTies(_, _)
InsertBeforeTies(sorted, a) ==
    IF sorted = <<>> THEN <<a>>
    ELSE IF ~KeyLess(Head(sorted), a) THEN <<a>> \o sorted
    ELSE <<Head(sorted)>> \o InsertBeforeTies(Tail(sorted), a)

\* list.sort is stable: an element goes after every element not greater than it.
RECURSIVE InsertSorted(_, _)
InsertSorted(sorted, a) ==
    IF sorted = <<>> THEN <<a>>
    ELSE IF KeyLess(a, Head(sorted)) THEN <<a>> \o sorted
    ELSE <<Head(sorted)>> \o InsertSorted(Tail(sorted), a)

RECURSIVE SortAlerts(_)
SortAlerts(alerts) ==
    IF alerts = <<>> THEN <<>>
    ELSE InsertSorted(SortAlerts(SubSeq(alerts, 1, Len(alerts) - 1)), alerts[Len(alerts)])

ErrorResponse(status) ==
    [status |-> status, body |-> "error", alerts |-> <<>>, total_alerts |-> 0]

AlertsResponse(alerts) ==
    [status |-> 200, body |-> "alerts", alerts |-> alerts, total_alerts |-> Len(alerts)]

\* Faulty variant of LowStockAlerts: the days parameter is validated before the
\* company is resolved.
LowStockAlertsDaysFirst(d, r) ==
    LET days == ArgsGetInt(r.days, RECENT_SALES_DAYS)
        include_no_sales == ArgsGetBool(r.include_no_sales, FALSE)
        sales_threshold_date == Now - days
        warehouse_ids == WarehouseIds(d, r.company_id)
        low_stock_items == LowStockItems(d, warehouse_ids)
        product_ids == {low_stock_items[i].product.id : i \in 1..Len(low_stock_items)}
        subquery == SalesSubquery(d, product_ids, sales_threshold_date)
        loop == AlertLoop(low_stock_items, subquery, days, include_no_sales)
    IN IF days <= 0 THEN <<ErrorResponse(400), <<>>>>
       ELSE IF r.company_id \notin d.companies THEN <<ErrorResponse(404), <<>>>>
       ELSE IF warehouse_ids = {} THEN <<AlertsResponse(<<>>), <<>>>>
       ELSE IF low_stock_items = <<>> THEN <<AlertsResponse(<<>>), <<>>>>
       ELSE <<AlertsResponse(SortAlerts(loop[1])), loop[2]>>

\* get_low_stock_alerts: <<response, loop locals>>.
LowStockAlerts(d, r) ==
    LET days == ArgsGetInt(r.days, RECENT_SALES_DAYS)
        include_no_sales == ArgsGetBool(r.include_no_sales, FALSE)
        sales_threshold_date == Now - days
        warehouse_ids == WarehouseIds(d, r.company_id)
        low_stock_items == LowStockItems(d, warehouse_ids)
        product_ids == {low_stock_items[i].product.id : i \in 1..Len(low_stock_items)}
        subquery == SalesSubquery(d, product_ids, sales_threshold_date)
        loop == AlertLoop(low_stock_items, subquery, days, include_no_sales)
    IN IF r.company_id \notin d.companies THEN <<ErrorResponse(404), <<>>>>
       ELSE IF days <= 0 THEN <<ErrorResponse(400), <<>>>>
       ELSE IF warehouse_ids = {} THEN <<AlertsResponse(<<>>), <<>>>>
       ELSE IF low_stock_items = <<>> THEN <<AlertsResponse(<<>>), <<>>>>
       ELSE <<AlertsResponse(SortAlerts(loop[1])), loop[2]>>

(***************************************************************************)
(* The stores and requests the alert endpoint is checked on.               *)
(***************************************************************************)
Quantities == {4, 5, 9, 10}
OtherQuantities == {4, 10}
Overrides == {None, Some(5)}
TypeChoices == {None, Some(1)}

AlertProduct(id, type) ==
    [id |-> id, sku |-> <<"P", Digits[id + 1]>>, name |-> <<"W">>, price |-> 50,
     product_type_id |-> type, supplier_id |-> IF id = 1 THEN Some(1) ELSE None]

InventoryRow(product_id, warehouse_id, quantity, override) ==
    [product_id |-> product_id, warehouse_id |-> warehouse_id,
     quantity |-> quantity, low_stock_threshold |-> override]

Sale(id, product_id, warehouse_id, quantity, age) ==
    [id |-> id, product_id |-> product_id, warehouse_id |-> warehouse_id,
     quantity |-> quantity, sale_date |-> Now - age]

SaleEvents ==
    {Sale(1, 1, 1, 9, 1), Sale(2, 1, 1, 3, 1), Sale(3, 1, 1, 9, 30),
     Sale(4, 1, 2, 9, 1), Sale(5, 2, 1, 9, 3), Sale(6, 2, 3, 4, 1),
     Sale(7, 1, 1, 3, 31)}

AlertStores ==
    {[companies |-> {1, 2, 3},
      warehouses |-> {[id |-> 1, company_id |-> 1], [id |-> 2, company_id |-> 1],
                      [id |-> 3, company_id |-> 2]},
      suppliers |-> {[id |-> 1]},
      product_types |-> {[id |-> 1, default_low_stock_threshold |-> Some(9)]},
      products |-> {AlertProduct(1, t1), AlertProduct(2, Some(1))},
      inventory |-> <<InventoryRow(1, 1, q1, o1), InventoryRow(2, 1, q2, None),
                      InventoryRow(1, 2, q3, None), InventoryRow(2, 3, 4, None)>>,
      transactions |-> <<>>,
      next_product_id |-> 3,
      sales |-> ss] :
        t1 \in TypeChoices,
        q1 \in Quantities, q2 \in OtherQuantities, q3 \in OtherQuantities,
        o1 \in Overrides,
        ss \in {S \in SUBSET SaleEvents : Cardinality(S) <= MaxSales}}

CompanyIds == 1..4
DaysParams == {None, Some(<<"7">>), Some(<<"0">>), Some(<<"-", "1">>)}
IncludeParams == {None, Some(<<"t", "r", "u", "e">>), Some(<<"f", "a", "l", "s", "e">>)}

AlertRequests ==
    [company_id : CompanyIds, days : DaysParams, include_no_sales : IncludeParams]

Init ==
    /\ db \in AlertStores
    /\ req = None
    /\ resp = None
    /\ locals = <<>>
    /\ proc = <<>>

\* GET /api/companies/<company_id>/alerts/low-stock
GetLowStockAlerts ==
    /\ IsNone(resp)
    /\ \E r \in AlertRequests :
         LET out == LowStockAlerts(db, r)
         IN /\ req' = Some(r)
            /\ resp' = Some(out[1])
            /\ locals' = out[2]
    /\ UNCHANGED <<db, proc>>

Next == GetLowStockAlerts

Spec == Init /\ [][Next]_vars

(***************************************************************************)
(* get_low_stock_alerts_optimized: one query with the velocity computed in *)
(* SQL. What sum(quantity) / days yields depends on the database and the   *)
(* driver: integer division (the sum and days are both integers), or       *)
(* floating-point division where the toolkit renders true division.        *)
(***************************************************************************)
SqlDivisions == {"integer", "float"}

\* (func.sum(Sales.quantity) / days): an integer quotient or a float.
SqlDivide(total, days, division) ==
    IF division = "integer"
    THEN [k |-> "int", n |-> total \div days, f |-> None]
    ELSE [k |-> "float", n |-> 0, f |-> Some(PyTrueDiv(total, days))]

\* avg_daily_sales_subq: one row per (product, warehouse) with a sale in the
\* window.
AvgDailySalesSubq(d, days, sales_threshold_date, division) ==
    LET rows == {x \in d.sales : x.sale_date >= sales_threshold_date}
        keys == {SalesGroupKey(x) : x \in rows}
        group(k) == {x \in rows : SalesGroupKey(x) = k}
    IN {[product_id |-> k[1],
         warehouse_id |-> k[2],
         avg_daily_sales |-> SqlDivide(SumQuantity(group(k)), days, division)] : k \in keys}

\* The outer join of a joined row to avg_daily_sales_subq: the column
\* avg_daily_sales, NULL without a match.
AvgDailySalesColumn(jr, subq) ==
    LET hits == {g \in subq : /\ g.product_id = jr.inventory.product_id
                             /\ g.warehouse_id = jr.inventory.warehouse_id}
    IN IF hits = {} THEN None ELSE Some((CHOOSE g \in hits : TRUE).avg_daily_sales)

\* func.coalesce(Inventory.low_stock_threshold,
\*               ProductType.default_low_stock_threshold, 10)
CoalesceThreshold(jr) ==
    IF IsSome(jr.inventory.low_stock_threshold) THEN Val(jr.inventory.low_stock_threshold)
    ELSE IF IsSome(TypeDefaultColumn(jr)) THEN Val(TypeDefaultColumn(jr))
    ELSE 10

\* results = query.all(): <<joined row, avg_daily_sales>> in fetch order.
RECURSIVE OptimizedResults(_, _, _, _)
OptimizedResults(jrs, warehouse_ids, subq, include_no_sales) ==
    IF jrs = <<>> THEN <<>>
    ELSE LET jr == Head(jrs)
             avg == AvgDailySalesColumn(jr, subq)
             rest == OptimizedResults(Tail(jrs), warehouse_ids, subq, include_no_sales)
         IN IF /\ InWarehouses(jr, warehouse_ids)
               /\ CoalesceThreshold(jr) > jr.inventory.quantity
               /\ include_no_sales \/ IsSome(avg)
            THEN <<<<jr, avg>>>> \o rest
            ELSE rest

\* if row.avg_daily_sales and row.avg_daily_sales > 0:
\*     days_until_stockout = int(row.quantity / row.avg_daily_sales)
OptimizedDaysUntilStockout(quantity, avg) ==
    IF IsNone(avg) THEN None
    ELSE IF Val(avg).k = "int"
         THEN IF Val(avg).n > 0
              THEN Some(IF quantity = 0 THEN 0
                        ELSE PyIntOfFloat(PyTrueDiv(quantity, Val(avg).n)))
              ELSE None
         ELSE Some(StockoutDays(quantity, Val(Val(avg).f)))

\* One iteration of the loop over results.
OptimizedAlert(row) ==
    LET jr == row[1]
    IN [product_id |-> jr.product.id,
        sku |-> jr.product.sku,
        warehouse_id |-> jr.inventory.warehouse_id,
        current_stock |-> jr.inventory.quantity,
        threshold |-> Threshold(jr.inventory, jr.product_type),
        days_until_stockout |-> OptimizedDaysUntilStockout(jr.inventory.quantity, row[2]),
        supplier |-> SupplierInfo(jr.supplier)]

RECURSIVE OptimizedLoop(_)
OptimizedLoop(results) ==
    IF results = <<>> THEN <<>>
    ELSE <<OptimizedAlert(Head(results))>> \o OptimizedLoop(Tail(results))

\* get_low_stock_alerts_optimized: the response.
LowStockAlertsOptimized(d, r, division) ==
    LET days == ArgsGetInt(r.days, RECENT_SALES_DAYS)
        include_no_sales == ArgsGetBool(r.include_no_sales, FALSE)
        sales_threshold_date == Now - days
        warehouse_ids == WarehouseIds(d, r.company_id)
        subq == AvgDailySalesSubq(d, days, sales_threshold_date, division)
        results == OptimizedResults(JoinAll(d, d.inventory), warehouse_ids, subq,
                                    include_no_sales)
    IN IF r.company_id \notin d.companies THEN ErrorResponse(404)
       ELSE IF days <= 0 THEN ErrorResponse(400)
       ELSE AlertsResponse(SortAlerts(OptimizedLoop(results)))

\* GET /api/companies/<company_id>/alerts/low-stock-optimized
GetLowStockAlertsOptimized ==
    /\ IsNone(resp)
    /\ \E r \in AlertRequests, division \in SqlDivisions :
         /\ req' = Some(r)
         /\ resp' = Some(LowStockAlertsOptimized(db, r, division))
    /\ UNCHANGED <<db, locals, proc>>

OptimizedNext == GetLowStockAlertsOptimized

OptimizedSpec == Init /\ [][OptimizedNext]_vars
(***************************************************************************)
(* create_product (src/fixed_create_product.py). A request validates its   *)
(* body, inserts the Product inside its transaction (flush), then inserts  *)
(* the Inventory and InventoryTransaction rows and commits. proc[r] holds  *)
(* the position and the locals of request r; db holds committed rows only. *)
(***************************************************************************)
NumRequests == 2

RequestIds == 1..NumRequests

CreateResponse(status, error, existing_product_id, product_id) ==
    [status |-> status, error |-> error,
     existing_product_id |-> existing_product_id, product_id |-> product_id]

ErrorOnly(status, error) == CreateResponse(status, error, None, None)

RequiredFields(body) ==
    <<body.name, body.sku, body.price, body.warehouse_id, body.initial_quantity>>

\* request.json is an empty dict
EmptyBody(body) ==
    /\ \A i \in 1..5 : RequiredFields(body)[i] = Missing
    /\ body.supplier_id = Missing

MissingFields(body) == \E i \in 1..5 : RequiredFields(body)[i] = Missing

\* sku = str(data['sku']).strip()
SkuOf(body) == PyStrip(PyStr(body.sku))

\* The committed Product holding a SKU, if any: the unique index on
\* products.sku, which an INSERT of the SKU violates.
UniqueSkuHolder(d, sku) ==
    IF \E q \in d.products : q.sku = sku
    THEN Some(CHOOSE q \in d.products : q.sku = sku)
    ELSE None

\* Faulty variant of ExistingProduct: the pre-write check finds nothing.
NoExistingProduct(d, sku) == None

\* Product.query.filter_by(sku=sku).first()
ExistingProduct(d, sku) ==
    IF \E q \in d.products : q.sku = sku
    THEN Some(CHOOSE q \in d.products : q.sku = sku)
    ELSE None

\* The validated locals of a request that reaches the transaction.
ValidatedData(body) ==
    [sku |-> SkuOf(body),
     name |-> PyStrip(PyStr(body.name)),
     price |-> Val(PyFloat(body.price)),
     initial_quantity |-> Val(PyInt(body.initial_quantity)),
     warehouse_id |-> Val(PyInt(body.warehouse_id)),
     supplier_id |-> IF body.supplier_id \in {Missing, JNull} THEN None
                     ELSE PyInt(body.supplier_id)]

\* The early return of the validation, None when the request passes it.
ValidationResponse(d, body) ==
    IF ~body.is_json THEN Some(ErrorOnly(400, "Request must be JSON"))
    ELSE IF EmptyBody(body) THEN Some(ErrorOnly(400, "Request body cannot be empty"))
    ELSE IF MissingFields(body) THEN Some(ErrorOnly(400, "Missing required fields"))
    ELSE IF SkuOf(body) = <<>> THEN Some(ErrorOnly(400, "SKU cannot be empty"))
    ELSE IF IsSome(ExistingProduct(d, SkuOf(body)))
         THEN Some(CreateResponse(409, "SKU already exists",
                                  Some(Val(ExistingProduct(d, SkuOf(body))).id), None))
    ELSE IF IsNone(PyFloat(body.price))
         THEN Some(ErrorOnly(400, "Price must be a valid number"))
    ELSE IF Val(PyFloat(body.price)) < 0
         THEN Some(ErrorOnly(400, "Price must be non-negative"))
    ELSE IF IsNone(PyInt(body.initial_quantity))
         THEN Some(ErrorOnly(400, "Initial quantity must be a valid integer"))
    ELSE IF Val(PyInt(body.initial_quantity)) < 0
         THEN Some(ErrorOnly(400, "Initial quantity must be non-negative"))
    ELSE IF IsNone(PyInt(body.warehouse_id))
         THEN Some(ErrorOnly(500, "An unexpected error occurred"))
    ELSE IF IsNone(Lookup(d.warehouses, Val(PyInt(body.warehouse_id))))
         THEN Some(ErrorOnly(404, "Warehouse does not exist"))
    ELSE IF PyStrip(PyStr(body.name)) = <<>>
         THEN Some(ErrorOnly(400, "Product name cannot be empty"))
    ELSE IF body.supplier_id \notin {Missing, JNull} /\ IsNone(PyInt(body.supplier_id))
         THEN Some(ErrorOnly(400, "Supplier ID must be a valid integer"))
    ELSE IF body.supplier_id \notin {Missing, JNull}
            /\ IsNone(Lookup(d.suppliers, Val(PyInt(body.supplier_id))))
         THEN Some(ErrorOnly(404, "Supplier does not exist"))
    ELSE None

\* Product(...) with the id the flush assigns.
NewProduct(d, data) ==
    [id |-> d.next_product_id, sku |-> data.sku, name |-> data.name,
     price |-> data.price, product_type_id |-> None, supplier_id |-> data.supplier_id]

\* Inventory(...)
NewInventory(product, data) ==
    [product_id |-> product.id, warehouse_id |-> data.warehouse_id,
     quantity |-> data.initial_quantity, low_stock_threshold |-> None]

\* Faulty variant of NewTransaction: the record takes the new quantity as the
\* quantity before.
NewTransactionFromStock(product, data) ==
    [product_id |-> product.id, warehouse_id |-> data.warehouse_id,
     transaction_type |-> "initial_stock",
     quantity_change |-> data.initial_quantity,
     quantity_before |-> data.initial_quantity,
     quantity_after |-> data.initial_quantity]

\* InventoryTransaction(...)
NewTransaction(product, data) ==
    [product_id |-> product.id, warehouse_id |-> data.warehouse_id,
     transaction_type |-> "initial_stock",
     quantity_change |-> data.initial_quantity,
     quantity_before |-> 0,
     quantity_after |-> data.initial_quantity]

\* Faulty variant of AfterFlush: the flushed Product is committed at once.
AfterFlushCommitted(d, product) ==
    [d EXCEPT !.next_product_id = @ + 1, !.products = @ \cup {product}]

\* The committed store after db.session.flush(): the id sequence has advanced,
\* the inserted Product stays inside the transaction.
AfterFlush(d, product) == [d EXCEPT !.next_product_id = @ + 1]

\* The committed store after db.session.commit().
AfterCommit(d, product, inventory, transaction) ==
    [d EXCEPT !.products = @ \cup {product},
              !.inventory = Append(@, inventory),
              !.transactions = Append(@, transaction)]

\* The except exc.IntegrityError branch; message is str(e).lower().
IntegrityErrorResponse(mentions_sku, mentions_unique) ==
    IF mentions_sku \/ mentions_unique
    THEN ErrorOnly(409, "SKU already exists")
    ELSE ErrorOnly(400, "Database integrity error")

(***************************************************************************)
(* The request bodies create_product is checked on: a valid body and the   *)
(* bodies that differ from it in one field.                                *)
(***************************************************************************)
ValidBody ==
    [is_json |-> TRUE, name |-> JStr(<<"W">>), sku |-> JStr(<<"A">>), price |-> JInt(5),
     warehouse_id |-> JInt(1), initial_quantity |-> JInt(7), supplier_id |-> Missing]

NameValues == {Missing, JStr(<<>>), JStr(<<" ">>)}
SkuValues == {Missing, JStr(<<>>), JStr(<<" ", "A">>), JStr(<<"B">>)}
PriceValues == {Missing, JNull, JStr(<<"x">>), JInt(-1), JStr(<<"9", ".", "5">>)}
WarehouseValues == {Missing, JNull, JStr(<<"x">>), JInt(9), JStr(<<"1">>)}
QuantityValues == {Missing, JNull, JStr(<<"x">>), JInt(-1), JFloat(25), JInt(0)}
SupplierValues == {JNull, JStr(<<"x">>), JInt(9), JInt(1)}

Bodies ==
    {ValidBody, [ValidBody EXCEPT !.is_json = FALSE],
     [is_json |-> TRUE, name |-> Missing, sku |-> Missing, price |-> Missing,
      warehouse_id |-> Missing, initial_quantity |-> Missing, supplier_id |-> Missing]}
    \cup {[ValidBody EXCEPT !.name = v] : v \in NameValues}
    \cup {[ValidBody EXCEPT !.sku = v] : v \in SkuValues}
    \cup {[ValidBody EXCEPT !.price = v] : v \in PriceValues}
    \cup {[ValidBody EXCEPT !.warehouse_id = v] : v \in WarehouseValues}
    \cup {[ValidBody EXCEPT !.initial_quantity = v] : v \in QuantityValues}
    \cup {[ValidBody EXCEPT !.supplier_id = v] : v \in SupplierValues}

Idle == [pc |-> "idle", body |-> None, data |-> None, product |-> None,
         session |-> None, exception |-> None, resp |-> None]

\* The request returns: an open transaction has been rolled back or committed.
Finish(p, exception, response) ==
    [p EXCEPT !.pc = "done", !.session = None, !.exception = exception,
              !.resp = Some(response)]

\* Whether the request reaches the transaction.
PassesPreCheck(d, body) == IsNone(ValidationResponse(d, body))

\* The exception the validation raises into the outer handler, if any:
\* int(data['warehouse_id']) is outside every inner try.
ValidationException(d, body) ==
    IF IsSome(ValidationResponse(d, body)) /\ Val(ValidationResponse(d, body)).status = 500
    THEN Some("Exception") ELSE None

\* The body of the request: validation up to the first write.
Validate(r) ==
    /\ proc[r].pc = "idle"
    /\ \E body \in Bodies :
         proc' = [proc EXCEPT ![r] =
                    IF PassesPreCheck(db, body)
                    THEN [Idle EXCEPT !.pc = "flush", !.body = Some(body),
                                      !.data = Some(ValidatedData(body))]
                    ELSE Finish([Idle EXCEPT !.body = Some(body)],
                                ValidationException(db, body),
                                Val(ValidationResponse(db, body)))]
    /\ UNCHANGED <<db, req, resp, locals>>

\* An INSERT of a SKU that another open transaction has inserted waits for
\* that transaction to end.
WaitsForSku(r) ==
    \E o \in RequestIds \ {r} :
        /\ IsSome(proc[o].session)
        /\ Val(proc[o].session).sku = Val(proc[r].data).sku

\* db.session.add(product); db.session.flush()
FlushProduct(r) ==
    /\ proc[r].pc = "flush"
    /\ ~WaitsForSku(r)
    /\ LET product == NewProduct(db, Val(proc[r].data))
       IN \/ /\ IsSome(UniqueSkuHolder(db, product.sku))
             /\ proc' = [proc EXCEPT ![r] = Finish(@, Some("IntegrityError"),
                                                   IntegrityErrorResponse(TRUE, TRUE))]
             /\ db' = db
          \/ /\ IsNone(UniqueSkuHolder(db, product.sku))
             /\ proc' = [proc EXCEPT ![r] = [@ EXCEPT !.pc = "commit",
                                                      !.product = Some(product),
                                                      !.session = Some(product)]]
             /\ db' = AfterFlush(db, product)
          \/ /\ proc' = [proc EXCEPT ![r] = Finish(@, Some("Exception"),
                                                   ErrorOnly(500, "Failed to create product"))]
             /\ db' = db
    /\ UNCHANGED <<req, resp, locals>>

\* db.session.add(inventory); db.session.add(transaction); db.session.commit()
Commit(r) ==
    /\ proc[r].pc = "commit"
    /\ LET product == Val(proc[r].product)
           data == Val(proc[r].data)
       IN \/ /\ db' = AfterCommit(db, product, NewInventory(product, data),
                                  NewTransaction(product, data))
             /\ proc' = [proc EXCEPT ![r] =
                           Finish(@, None, CreateResponse(201, "", None, Some(product.id)))]
          \/ /\ db' = db
             /\ proc' = [proc EXCEPT ![r] = Finish(@, Some("Exception"),
                                                   ErrorOnly(500, "Failed to create product"))]
    /\ UNCHANGED <<req, resp, locals>>

CreateInit ==
    /\ db = [companies |-> {1},
             warehouses |-> {[id |-> 1, company_id |-> 1]},
             suppliers |-> {[id |-> 1]},
             product_types |-> {[id |-> 1, default_low_stock_threshold |-> Some(9)]},
             products |-> {},
             inventory |-> <<>>,
             transactions |-> <<>>,
             next_product_id |-> 1,
             sales |-> {}]
    /\ proc = [r \in RequestIds |-> Idle]
    /\ req = None
    /\ resp = None
    /\ locals = <<>>

CreateNext == \E r \in RequestIds : Validate(r) \/ FlushProduct(r) \/ Commit(r)

CreateSpec == CreateInit /\ [][CreateNext]_vars

(***************************************************************************)
(* Concurrent get_low_stock_alerts requests. Each request runs its queries *)
(* in the order of the code: the company, the warehouses, the low-stock    *)
(* rows, then the sales of the rows; the queries of different requests     *)
(* interleave. A query that fails raises, and the handler answers 500.     *)
(***************************************************************************)
ConcurrentStores ==
    {d \in AlertStores :
        /\ d.inventory[1].low_stock_threshold = None
        /\ d.inventory[1].quantity \in {4, 10}
        /\ d.inventory[2].quantity = 4
        /\ d.inventory[3].quantity = 4
        /\ Some(1) \in {q.product_type_id : q \in {x \in d.products : x.id = 1}}
        /\ d.sales \subseteq {Sale(1, 1, 1, 9, 1), Sale(5, 2, 1, 9, 3)}}

ConcurrentRequests ==
    {[company_id |-> 1, days |-> None, include_no_sales |-> None],
     [company_id |-> 1, days |-> Some(<<"7">>), include_no_sales |-> Some(<<"t", "r", "u", "e">>)],
     [company_id |-> 1, days |-> Some(<<"0">>), include_no_sales |-> None],
     [company_id |-> 3, days |-> None, include_no_sales |-> None],
     [company_id |-> 4, days |-> None, include_no_sales |-> None]}

AlertIdle ==
    [pc |-> "idle", req |-> None, days |-> 0, include_no_sales |-> FALSE,
     warehouse_ids |-> {}, low_stock_items |-> <<>>, resp |-> None]

\* The handler returns.
Respond(p, response) == [p EXCEPT !.pc = "done", !.resp = Some(response)]

\* Lines 59-76: the company is resolved, the parameters are read and days is
\* validated.
ResolveCompany(r) ==
    /\ proc[r].pc = "idle"
    /\ \E request \in ConcurrentRequests :
         LET days == ArgsGetInt(request.days, RECENT_SALES_DAYS)
             include_no_sales == ArgsGetBool(request.include_no_sales, FALSE)
             p == [proc[r] EXCEPT !.req = Some(request)]
         IN proc' = [proc EXCEPT ![r] =
                IF request.company_id \notin db.companies THEN Respond(p, ErrorResponse(404))
                ELSE IF days <= 0 THEN Respond(p, ErrorResponse(400))
                ELSE [p EXCEPT !.pc = "warehouses", !.days = days,
                               !.include_no_sales = include_no_sales]]
    /\ UNCHANGED <<db, req, resp, locals>>

\* Lines 79-87: the warehouses of the company.
QueryWarehouses(r) ==
    /\ proc[r].pc = "warehouses"
    /\ LET warehouse_ids == WarehouseIds(db, Val(proc[r].req).company_id)
       IN proc' = [proc EXCEPT ![r] =
              IF warehouse_ids = {} THEN Respond(proc[r], AlertsResponse(<<>>))
              ELSE [proc[r] EXCEPT !.pc = "query", !.warehouse_ids = warehouse_ids]]
    /\ UNCHANGED <<db, req, resp, locals>>

\* Lines 91-135: the low-stock rows at those warehouses.
QueryLowStock(r) ==
    /\ proc[r].pc = "query"
    /\ LET low_stock_items == LowStockItems(db, proc[r].warehouse_ids)
       IN proc' = [proc EXCEPT ![r] =
              IF low_stock_items = <<>> THEN Respond(proc[r], AlertsResponse(<<>>))
              ELSE [proc[r] EXCEPT !.pc = "loop", !.low_stock_items = low_stock_items]]
    /\ UNCHANGED <<db, req, resp, locals>>

\* Lines 138-236: the sales of the rows, the loop, the sort and the answer.
AlertsComputed(r) ==
    /\ proc[r].pc = "loop"
    /\ LET items == proc[r].low_stock_items
           product_ids == {items[i].product.id : i \in 1..Len(items)}
           subquery == SalesSubquery(db, product_ids, Now - proc[r].days)
           loop == AlertLoop(items, subquery, proc[r].days, proc[r].include_no_sales)
       IN proc' = [proc EXCEPT ![r] = Respond(proc[r], AlertsResponse(SortAlerts(loop[1])))]
    /\ UNCHANGED <<req, resp, locals>>

\* Faulty variant of ComputeAlerts: the handler records the alert run in the store.
ComputeAlertsAndRecord(r) ==
    /\ AlertsComputed(r)
    /\ db' = [db EXCEPT !.transactions =
                Append(@, [product_id |-> 0, transaction_type |-> "alert_run"])]

ComputeAlerts(r) ==
    /\ AlertsComputed(r)
    /\ UNCHANGED db

\* Lines 244-253: a query raised; the handler answers 500.
StoreFailure(r) ==
    /\ proc[r].pc \in {"warehouses", "query", "loop"}
    /\ proc' = [proc EXCEPT ![r] = Respond(proc[r], ErrorResponse(500))]
    /\ UNCHANGED <<db, req, resp, locals>>

ConcurrentInit ==
    /\ db \in ConcurrentStores
    /\ proc = [r \in RequestIds |-> AlertIdle]
    /\ req = None
    /\ resp = None
    /\ locals = <<>>

ConcurrentNext ==
    \E r \in RequestIds :
        \/ ResolveCompany(r)
        \/ QueryWarehouses(r)
        \/ QueryLowStock(r)
        \/ ComputeAlerts(r)
        \/ StoreFailure(r)

ConcurrentSpec == ConcurrentInit /\ [][ConcurrentNext]_vars

(***************************************************************************)
(* Properties of the alert endpoint.                                       *)
(***************************************************************************)
Answered == IsSome(resp)
Alerts == Val(resp).alerts
Request == Val(req)
TrueParam == Some(<<"t", "r", "u", "e">>)
FalseParam == Some(<<"f", "a", "l", "s", "e">>)

\* The inventory row an alert or a loop iteration is about, and its place in
\* the fetch order.
FetchIndex(a) ==
    CHOOSE i \in 1..Len(db.inventory) :
        /\ db.inventory[i].product_id = a.product_id
        /\ db.inventory[i].warehouse_id = a.warehouse_id
RowOf(a) == db.inventory[FetchIndex(a)]

\* The default threshold of the type of a product, absent when the product has
\* no type or the type sets none.
TypeDefaultOf(product_id) ==
    LET product == CHOOSE q \in db.products : q.id = product_id
        types == {t \in db.product_types : Some(t.id) = product.product_type_id}
    IN IF types = {} THEN None
       ELSE (CHOOSE t \in types : TRUE).default_low_stock_threshold

\* The effective threshold of the data model: override, else type default, else 10.
EffectiveThreshold(inv) ==
    CASE IsSome(inv.low_stock_threshold) -> Val(inv.low_stock_threshold)
      [] IsNone(inv.low_stock_threshold) /\ IsSome(TypeDefaultOf(inv.product_id)) ->
            Val(TypeDefaultOf(inv.product_id))
      [] OTHER -> 10

\* The rows at the warehouses of the requested company.
CompanyRows ==
    {i \in 1..Len(db.inventory) :
        \E w \in db.warehouses :
            /\ w.id = db.inventory[i].warehouse_id
            /\ w.company_id = Request.company_id}

AlertRows == {FetchIndex(Alerts[k]) : k \in 1..Len(Alerts)}

\* C1: every alert reports the threshold of the fallback chain: the row's
\* override when present, else the product type's default when the product has
\* a type and the default is set, else 10.
C1_ThresholdFallbackChain ==
    Answered =>
        \A k \in 1..Len(Alerts) :
            Alerts[k].threshold = EffectiveThreshold(RowOf(Alerts[k]))

\* C1 witness: one answer holds an alert on an override, one on a type default
\* and one on the fallback of 10.
C1_Witness ==
    /\ Answered
    /\ \E i, j, k \in 1..Len(Alerts) :
        /\ IsSome(RowOf(Alerts[i]).low_stock_threshold)
        /\ Alerts[i].threshold = Val(RowOf(Alerts[i]).low_stock_threshold)
        /\ IsNone(RowOf(Alerts[j]).low_stock_threshold)
        /\ IsSome(TypeDefaultOf(Alerts[j].product_id))
        /\ Alerts[j].threshold = 9
        /\ IsNone(RowOf(Alerts[k]).low_stock_threshold)
        /\ IsNone(TypeDefaultOf(Alerts[k].product_id))
        /\ Alerts[k].threshold = 10

\* C2: every alert has current_stock < threshold, and with include_no_sales=true
\* (no row is dropped for want of sales) the alerts are exactly the rows of the
\* company whose quantity is strictly below their effective threshold.
C2_StrictlyBelowThreshold ==
    Answered /\ Val(resp).status = 200 =>
        /\ \A k \in 1..Len(Alerts) :
            /\ Alerts[k].current_stock = RowOf(Alerts[k]).quantity
            /\ Alerts[k].current_stock < Alerts[k].threshold
        /\ AlertRows \subseteq
            {i \in CompanyRows : db.inventory[i].quantity < EffectiveThreshold(db.inventory[i])}
        /\ Request.include_no_sales = TrueParam =>
            AlertRows =
              {i \in CompanyRows : db.inventory[i].quantity < EffectiveThreshold(db.inventory[i])}

\* C2 witness: a row with quantity equal to its threshold is left out while a
\* row one below its threshold is reported.
C2_Witness ==
    /\ Answered /\ Val(resp).status = 200
    /\ Request.include_no_sales = TrueParam
    /\ \E i \in CompanyRows \ AlertRows :
        db.inventory[i].quantity = EffectiveThreshold(db.inventory[i])
    /\ \E k \in 1..Len(Alerts) : Alerts[k].current_stock = Alerts[k].threshold - 1
\* The window length of the request: the days parameter, 30 when it is not given.
WindowDays == ArgsGetInt(Request.days, RECENT_SALES_DAYS)

\* The Sale events of a (product, warehouse) pair inside the trailing window.
WindowSales(a) ==
    {x \in db.sales :
        /\ x.product_id = a.product_id
        /\ x.warehouse_id = a.warehouse_id
        /\ x.sale_date >= Now - WindowDays}

RECURSIVE UnitsSold(_)
UnitsSold(S) ==
    IF S = {} THEN 0
    ELSE LET x == CHOOSE y \in S : TRUE IN UnitsSold(S \ {x}) + x.quantity

\* C3: for every retained row the velocity is the units sold by exactly the
\* Sale events of the row's product at the row's warehouse inside the window,
\* divided by the window length days.
C3_VelocityOverWindow ==
    Answered =>
        \A k \in 1..Len(locals) :
            LET it == locals[k]
            IN IF WindowSales(it) = {}
               THEN IsNone(it.recent_sales) /\ IsNone(it.average_daily_sales)
               ELSE /\ IsSome(it.recent_sales)
                    /\ Val(it.recent_sales).total_sold = UnitsSold(WindowSales(it))
                    /\ it.average_daily_sales =
                         Some(PyTrueDiv(UnitsSold(WindowSales(it)), WindowDays))

\* C3 witness: a retained row has sales in the window on fewer distinct days
\* than the window is long, while the same product also sold at another
\* warehouse and the same pair also sold before the window.
C3_Witness ==
    /\ Answered
    /\ \E k \in 1..Len(locals) :
        /\ IsSome(locals[k].recent_sales)
        /\ Val(locals[k].recent_sales).days_with_sales < WindowDays
        /\ Cardinality(WindowSales(locals[k])) >= 1
        /\ \E x \in db.sales :
            /\ x.product_id = locals[k].product_id
            /\ x.warehouse_id /= locals[k].warehouse_id
            /\ x.sale_date >= Now - WindowDays
        /\ \E x \in db.sales :
            /\ x.product_id = locals[k].product_id
            /\ x.warehouse_id = locals[k].warehouse_id
            /\ x.sale_date < Now - WindowDays

\* The low-stock rows of the requested company without a Sale event in the window.
NoSalesLowStockRows ==
    {i \in CompanyRows :
        /\ db.inventory[i].quantity < EffectiveThreshold(db.inventory[i])
        /\ WindowSales(db.inventory[i]) = {}}

\* C4: a low-stock row without sales in the window is absent from the result
\* when include_no_sales is false or omitted, and present without a
\* days_until_stockout when include_no_sales is true.
C4_NoSalesRowsFollowFlag ==
    Answered /\ Val(resp).status = 200 =>
        /\ Request.include_no_sales \in {None, FalseParam} =>
            NoSalesLowStockRows \cap AlertRows = {}
        /\ Request.include_no_sales = TrueParam =>
            /\ NoSalesLowStockRows \subseteq AlertRows
            /\ \A k \in 1..Len(Alerts) :
                FetchIndex(Alerts[k]) \in NoSalesLowStockRows =>
                    IsNone(Alerts[k].days_until_stockout)

\* C5: an alert whose pair sold in the window projects
\* floor(current_stock * days / total_sold); an alert without sales projects
\* nothing.
C5_StockoutIsExactFloor ==
    Answered =>
        \A k \in 1..Len(Alerts) :
            LET sold == UnitsSold(WindowSales(Alerts[k]))
            IN IF sold > 0
               THEN Alerts[k].days_until_stockout =
                        Some((Alerts[k].current_stock * WindowDays) \div sold)
               ELSE IsNone(Alerts[k].days_until_stockout)

Numeric(a) == IsSome(a.days_until_stockout)

\* C6: alerts with a projection precede those without, projections appear in
\* non-decreasing order, and alerts that tie keep their fetch order.
C6_SortedByUrgencyStable ==
    Answered =>
        \A i, j \in 1..Len(Alerts) :
            i < j =>
                /\ Numeric(Alerts[j]) => Numeric(Alerts[i])
                /\ Numeric(Alerts[i]) /\ Numeric(Alerts[j]) =>
                    Val(Alerts[i].days_until_stockout) <= Val(Alerts[j].days_until_stockout)
                /\ Alerts[i].days_until_stockout = Alerts[j].days_until_stockout =>
                    FetchIndex(Alerts[i]) < FetchIndex(Alerts[j])

\* C6 witness: three alerts, the row fetched first without a projection and
\* listed last, and two alerts with the same projection.
C6_Witness ==
    /\ Answered
    /\ Len(Alerts) = 3
    /\ FetchIndex(Alerts[3]) = 1
    /\ ~Numeric(Alerts[3])
    /\ Numeric(Alerts[1])
    /\ Alerts[1].days_until_stockout = Alerts[2].days_until_stockout

\* The warehouses of the requested company.
CompanyWarehouses == {w \in db.warehouses : w.company_id = Request.company_id}

DaysGiven == IF IsNone(Request.days) THEN None ELSE PyIntOfStr(Val(Request.days))

\* The Sale events of a (product, warehouse) pair in the trailing n days.
SalesWithin(a, n) ==
    {x \in db.sales :
        /\ x.product_id = a.product_id
        /\ x.warehouse_id = a.warehouse_id
        /\ x.sale_date >= Now - n}

\* C12: a request for an existing company whose days parameter is <= 0 is
\* answered 400 without an alert list; a request without a days parameter
\* measures sales over the trailing 30 days and divides by 30; and whenever a
\* velocity was computed, or the request was answered 200, the window length
\* was positive.
C12_DaysValidatedAndDefaulted ==
    Answered /\ Request.company_id \in db.companies =>
        /\ IsSome(DaysGiven) /\ Val(DaysGiven) <= 0 =>
            /\ Val(resp).status = 400
            /\ Val(resp).body = "error"
            /\ Alerts = <<>>
            /\ locals = <<>>
        /\ IsNone(Request.days) =>
            /\ Val(resp).status = 200
            /\ \A k \in 1..Len(locals) :
                IF SalesWithin(locals[k], 30) = {}
                THEN IsNone(locals[k].recent_sales)
                ELSE /\ IsSome(locals[k].recent_sales)
                     /\ Val(locals[k].recent_sales).total_sold =
                            UnitsSold(SalesWithin(locals[k], 30))
                     /\ locals[k].average_daily_sales =
                            Some(PyTrueDiv(UnitsSold(SalesWithin(locals[k], 30)), 30))
        /\ \/ Val(resp).status = 200
           \/ \E k \in 1..Len(locals) : IsSome(locals[k].average_daily_sales)
           => IsNone(Request.days) \/ (IsSome(DaysGiven) /\ Val(DaysGiven) > 0)

\* C12 witness: a request without days reports a row whose pair sold 30 days
\* ago, which counts, and 31 days ago, which does not.
C12_Witness ==
    /\ Answered
    /\ IsNone(Request.days)
    /\ \E k \in 1..Len(locals) :
        /\ IsSome(locals[k].average_daily_sales)
        /\ \E x \in SalesWithin(locals[k], 30) : x.sale_date = Now - 30
        /\ \E x \in SalesWithin(locals[k], 31) : x.sale_date = Now - 31
        /\ Val(locals[k].recent_sales).total_sold = UnitsSold(SalesWithin(locals[k], 30))

\* The alerts of a response as a set.
AlertSet(response) == {response.alerts[k] : k \in 1..Len(response.alerts)}

\* C13: the answer of get_low_stock_alerts_optimized has the status and the
\* set of alerts (product, warehouse, current_stock, threshold,
\* days_until_stockout, supplier) that get_low_stock_alerts gives for the same
\* store and request.
C13_OptimizedAgrees ==
    Answered =>
        LET original == LowStockAlerts(db, Request)[1]
        IN /\ Val(resp).status = original.status
           /\ AlertSet(Val(resp)) = AlertSet(original)

\* The ids of the warehouses of the requested company.
OwnWarehouseIds == {w.id : w \in CompanyWarehouses}

\* The store without the inventory rows and the Sale events at warehouses of
\* other companies.
OwnStore ==
    [db EXCEPT !.inventory = SelectSeq(@, LAMBDA inv : inv.warehouse_id \in OwnWarehouseIds),
               !.sales = {x \in @ : x.warehouse_id \in OwnWarehouseIds}]

\* C15: every alert is about an inventory row at a warehouse of the requested
\* company; the answer, velocities included, is the one the same request gets
\* over the store without the rows and sales of other companies' warehouses;
\* and total_alerts is the length of the alert list.
C15_TenantIsolation ==
    Answered =>
        /\ \A k \in 1..Len(Alerts) :
            /\ Alerts[k].warehouse_id \in OwnWarehouseIds
            /\ FetchIndex(Alerts[k]) \in CompanyRows
        /\ <<Val(resp), locals>> = LowStockAlerts(OwnStore, Request)
        /\ \A k \in 1..Len(locals) :
            IsSome(locals[k].recent_sales) =>
                Val(locals[k].recent_sales).total_sold =
                    UnitsSold({x \in WindowSales(locals[k]) :
                                    x.warehouse_id \in OwnWarehouseIds})
        /\ Val(resp).total_alerts = Len(Alerts)

\* C15 witness: company 1 is alerted about a product that has sales of its
\* own, while another company holds a low-stock row of the same product and
\* sold it inside the window.
C15_Witness ==
    /\ Answered
    /\ Val(resp).total_alerts >= 2
    /\ \E k \in 1..Len(Alerts) :
        /\ Numeric(Alerts[k])
        /\ \E i \in 1..Len(db.inventory) :
            /\ i \notin CompanyRows
            /\ db.inventory[i].product_id = Alerts[k].product_id
            /\ db.inventory[i].quantity < EffectiveThreshold(db.inventory[i])
        /\ \E x \in db.sales :
            /\ x.product_id = Alerts[k].product_id
            /\ x.warehouse_id \notin OwnWarehouseIds
            /\ x.sale_date >= Now - WindowDays
(***************************************************************************)
(* Properties of create_product.                                           *)
(***************************************************************************)
ProductIds == {q.id : q \in db.products}
InventoryOf(id) == {i \in 1..Len(db.inventory) : db.inventory[i].product_id = id}
AuditOf(id) ==
    {i \in 1..Len(db.transactions) :
        /\ db.transactions[i].product_id = id
        /\ db.transactions[i].transaction_type = "initial_stock"}
Done(r) == proc[r].pc = "done"
Status(r) == Val(proc[r].resp).status

\* C7: the committed store holds, for every product id, either the Product, its
\* Inventory row and its initial_stock record, or none of them; a request that
\* failed after its Product insert, or that has not committed yet, has left
\* nothing.
C7_AllOrNothing ==
    /\ \A id \in ProductIds : InventoryOf(id) /= {} /\ AuditOf(id) /= {}
    /\ \A i \in 1..Len(db.inventory) : db.inventory[i].product_id \in ProductIds
    /\ \A i \in 1..Len(db.transactions) : db.transactions[i].product_id \in ProductIds
    /\ \A r \in DOMAIN proc :
        /\ IsSome(proc[r].product) /\ ~(Done(r) /\ Status(r) = 201) =>
            Val(proc[r].product).id \notin ProductIds
        /\ Done(r) /\ Status(r) = 201 =>
            Val(proc[r].product) \in db.products

\* C7 witness: one request failed at commit, after its Product insert, and
\* another one committed.
C7_Witness ==
    \E r, o \in DOMAIN proc :
        /\ Done(r) /\ Status(r) = 500 /\ IsSome(proc[r].product)
        /\ Done(o) /\ Status(o) = 201

(***************************************************************************)
(* What the interface asks of a body, field by field.                      *)
(***************************************************************************)
IsIntegerValue(v) == v.k = "int" \/ (v.k = "str" /\ IsSome(PyIntOfStr(v.s)))
IsNumericValue(v) == v.k \in {"int", "float"} \/ (v.k = "str" /\ IsSome(PyFloatOfStr(v.s)))
IsNegativeValue(v) ==
    \/ v.k \in {"int", "float"} /\ v.n < 0
    \/ v.k = "str" /\ IsSome(PyFloatOfStr(v.s)) /\ Val(PyFloatOfStr(v.s)) < 0
SupplierGiven(b) == b.supplier_id \notin {Missing, JNull}

\* A required field is missing or a field holds an invalid value.
HasFault(b) ==
    \/ MissingFields(b)
    \/ ~IsNumericValue(b.price) \/ IsNegativeValue(b.price)
    \/ ~IsIntegerValue(b.initial_quantity) \/ IsNegativeValue(b.initial_quantity)
    \/ ~IsIntegerValue(b.warehouse_id)
    \/ b.name.k = "str" /\ PyStrip(b.name.s) = <<>>
    \/ SupplierGiven(b) /\ ~IsIntegerValue(b.supplier_id)

\* A well-formed warehouse_id or supplier_id names no row.
HasDanglingReference(b) ==
    \/ \A w \in db.warehouses : w.id /= Val(PyInt(b.warehouse_id))
    \/ SupplierGiven(b) /\ \A x \in db.suppliers : x.id /= Val(PyInt(b.supplier_id))

OtherwiseValid(b) == b.is_json /\ ~HasFault(b) /\ ~HasDanglingReference(b)

\* The SKU of the body as the store would hold it.
SkuText(b) == PyStrip(PyStr(b.sku))
SkuOwners(b) == {q \in db.products : q.sku = SkuText(b)}

\* C8: no two Products share a SKU; a request answered 201 has its Product in
\* the store under its SKU; and an otherwise valid request that arrives when a
\* Product with its SKU exists is answered 409 with that Product's id and
\* writes nothing.
C8_DuplicateSkuRejected ==
    /\ [](/\ \A p, q \in db.products : p.sku = q.sku => p = q
          /\ \A r \in DOMAIN proc :
                Done(r) /\ Status(r) = 201 =>
                    \E q \in db.products :
                        /\ Some(q.id) = Val(proc[r].resp).product_id
                        /\ q.sku = SkuText(Val(proc[r].body)))
    /\ [][\A r \in DOMAIN proc :
            /\ proc[r].pc = "idle"
            /\ proc'[r].pc /= "idle"
            /\ OtherwiseValid(Val(proc'[r].body))
            /\ SkuOwners(Val(proc'[r].body)) /= {}
            => /\ Done(r)'
               /\ Status(r)' = 409
               /\ \E q \in SkuOwners(Val(proc'[r].body)) :
                    Val(proc'[r].resp).existing_product_id = Some(q.id)
               /\ db' = db]_vars

\* C8 witness: the same SKU was submitted twice; the first request was answered
\* 201 and the second 409 with the id of the first one's Product.
C8_Witness ==
    \E r, o \in DOMAIN proc :
        /\ Done(r) /\ Status(r) = 201
        /\ Done(o) /\ Status(o) = 409
        /\ OtherwiseValid(Val(proc[o].body))
        /\ SkuText(Val(proc[o].body)) = SkuText(Val(proc[r].body))
        /\ Val(proc[o].resp).existing_product_id = Val(proc[r].resp).product_id

\* C9: a request that passed the pre-write check and then hit the unique
\* constraint is answered as the pre-write path answers: 409 with the id of
\* the Product that holds the SKU, which is the only one; it has written nothing.
C9_RaceLoserGetsSameConflict ==
    \A r \in DOMAIN proc :
        Done(r) /\ proc[r].exception = Some("IntegrityError") =>
            /\ Status(r) = 409
            /\ Cardinality(SkuOwners(Val(proc[r].body))) = 1
            /\ \E q \in SkuOwners(Val(proc[r].body)) :
                Val(proc[r].resp).existing_product_id = Some(q.id)
            /\ IsNone(proc[r].product)

\* C10: a request whose SKU is non-empty and unused is answered 400 when a
\* required field is missing or a field holds an invalid value, and 404 when a
\* well-formed warehouse_id or supplier_id names no row; neither writes.
C10_InvalidRequestsRejected ==
    \A r \in DOMAIN proc :
        LET b == Val(proc[r].body)
        IN /\ IsSome(proc[r].body)
           /\ b.is_json
           /\ b.sku = Missing \/ (SkuText(b) /= <<>> /\ SkuOwners(b) = {})
           => /\ HasFault(b) =>
                    Done(r) /\ Status(r) = 400 /\ IsNone(proc[r].product)
              /\ ~HasFault(b) /\ HasDanglingReference(b) =>
                    Done(r) /\ Status(r) = 404 /\ IsNone(proc[r].product)


\* The InventoryTransaction records of a product, of any type.
TransactionsOf(id) ==
    {i \in 1..Len(db.transactions) : db.transactions[i].product_id = id}

\* The requests answered 201 whose Product has the given id.
CreatorsOf(id) ==
    {r \in DOMAIN proc :
        /\ Done(r) /\ Status(r) = 201
        /\ IsSome(proc[r].product) /\ Val(proc[r].product).id = id}

C14_ReadOnlyOrderInsensitive ==
    /\ [][db' = db]_vars
    /\ [](\A r \in DOMAIN proc :
            Done(r) /\ Status(r) /= 500 =>
                Val(proc[r].resp) = LowStockAlerts(db, Val(proc[r].req))[1])
    /\ [](\A r, o \in DOMAIN proc :
            /\ Done(r) /\ Done(o)
            /\ proc[r].req = proc[o].req
            /\ Status(r) /= 500 /\ Status(o) /= 500
            => proc[r].resp = proc[o].resp)

\* C14 witness: two requests with the same parameters both answered 200 with
\* alerts, while the store holds what it held at the start.
C14_Witness ==
    /\ DOMAIN proc /= {}
    /\ \E r, o \in DOMAIN proc :
        /\ r /= o
        /\ Done(r) /\ Done(o)
        /\ proc[r].req = proc[o].req
        /\ Status(r) = 200 /\ Status(o) = 200
        /\ Val(proc[r].resp).alerts /= <<>>
        /\ db \in ConcurrentStores
====
